---- MODULE Spec2Model ----
(***************************************************************************)
(* Kino: a logging facade over the console and the Sentry SDK, and         *)
(* KinoLoggedClass, the base class that memoizes one logger per class.     *)
(*                                                                         *)
(* JavaScript objects are functions from their own keys to values; an      *)
(* absent key is a key outside the DOMAIN.  The value `undefined` of an    *)
(* object-typed slot is the record `undefined`; of a string-typed slot,    *)
(* the string "undefined".  Numbers are written as strings.                *)
(***************************************************************************)
EXTENDS Naturals, Sequences, FiniteSets, TLC

VARIABLES
    instance,       \* Kino.instance: undefined or the default Kino object
    locale,         \* Kino.locale
    sentryInits,    \* the options objects Kino.init handed to Sentry.init, in order
    client,         \* whether Sentry.getClient() returns a client
    handlers,       \* the events Kino.init registered a listener for with process.on, in order
    effects,        \* the console writes and Sentry.captureException calls of the last call, in order
    result,         \* the last call: its operation, its arguments and what it threw or returned
    callback,       \* the function a trace call returned and the caller still holds
    config,         \* the argument of the init call that ran past its guard
    initReturned,   \* whether an init call has returned normally
    _logger         \* KinoLoggedClass._logger: each class's own static field

vars == <<instance, locale, sentryInits, client, handlers, effects,
          result, callback, config, initReturned, _logger>>

----------------------------------------------------------------------------
(* Objects *)

undefined == [undefined |-> TRUE]

EmptyObject == [k \in {} |-> k]

\* { ...a, ...b }
Spread(a, b) ==
    [k \in DOMAIN a \cup DOMAIN b |-> IF k \in DOMAIN b THEN b[k] ELSE a[k]]

\* ...o of a possibly undefined object
SpreadOf(o) == IF o = undefined THEN EmptyObject ELSE o

Has(o, k) == k \in DOMAIN o

\* a boolean option read in a condition
Flag(o, k) == Has(o, k) /\ o[k]

\* an optional property: absent, or present with one of the values
Optional(k, values) == {EmptyObject} \cup {k :> v : v \in values}

SeqsUpTo(S, n) == UNION {[1..m -> S] : m \in 0..n}

----------------------------------------------------------------------------
(* Bounds and input sets *)

MaxPackages == 2

MaxEntries == 2

PackageNames == {"knex", "mysql2", "pg"}

\* Sentry.NodeOptions the caller passes as config.sentry
SentryConfigs ==
    { a @@ b @@ c @@ d @@ e :
        a \in Optional("tracesSampleRate", {"undefined", "1.0"}),
        b \in Optional("maxBreadcrumbs", {"100"}),
        c \in Optional("defaultIntegrations", {TRUE}),
        d \in Optional("integrations", {<<"Custom">>}),
        e \in Optional("sendClientReports", {TRUE}) }

\* KinoInitOptions
InitConfigs ==
    { s @@ p @@ a @@ t @@ l @@ u :
        s \in Optional("sentry", SentryConfigs),
        p \in Optional("packages", SeqsUpTo(PackageNames, MaxPackages)),
        a \in Optional("ANR", {TRUE}),
        t \in Optional("defaultIntanceTitle", {"APP"}),
        l \in Optional("locale", {"fr-FR"}),
        u \in Optional("autoCaptureUnhandledRejections", {TRUE}) }

----------------------------------------------------------------------------
(* Kino.init *)

\* new Kino(module)
Kino(module) == [module |-> module]

AlreadyInitializedNever == FALSE

\* Kino.instance is set
AlreadyInitialized == instance # undefined

InitLocale(cfg) ==
    IF Has(cfg, "locale") /\ cfg["locale"] # "" THEN cfg["locale"] ELSE locale

DefaultInstance(cfg) ==
    Kino(IF Has(cfg, "defaultIntanceTitle") /\ cfg["defaultIntanceTitle"] # "undefined"
         THEN cfg["defaultIntanceTitle"] ELSE "GLOBAL")

BaselineIntegrations ==
    << "FunctionToString", "LinkedErrors", "Console", "NodeFetch", "Http",
       "ContextLines", "ChildProcess", "Modules" >>

SdkCaptureIntegrationsAlways(cfg) ==
    << "OnUncaughtException", "OnUnhandledRejection" >>

SdkCaptureIntegrations(cfg) ==
    IF ~Flag(cfg, "autoCaptureUnhandledRejections")
    THEN << "OnUncaughtException", "OnUnhandledRejection" >>
    ELSE << >>

AnrIntegration(cfg) == IF Flag(cfg, "ANR") THEN << "Anr" >> ELSE << >>

\* config.packages?.includes(name)
PackagesInclude(cfg, name) ==
    Has(cfg, "packages") /\ \E i \in DOMAIN cfg["packages"] : cfg["packages"][i] = name

PackageIntegrationsKnexForBoth(cfg) ==
    (IF PackagesInclude(cfg, "knex") THEN << "Knex" >> ELSE << >>)
    \o (IF PackagesInclude(cfg, "knex") THEN << "Mysql2" >> ELSE << >>)

PackageIntegrations(cfg) ==
    (IF PackagesInclude(cfg, "knex") THEN << "Knex" >> ELSE << >>)
    \o (IF PackagesInclude(cfg, "mysql2") THEN << "Mysql2" >> ELSE << >>)

\* the local `integrations` of init
Integrations(cfg) ==
    BaselineIntegrations \o SdkCaptureIntegrations(cfg) \o AnrIntegration(cfg)
        \o PackageIntegrations(cfg)

\* value ?? fallback, of a string-typed property
Nullish(o, k, fallback) ==
    IF Has(o, k) /\ o[k] # "undefined" THEN o[k] ELSE fallback

\* the properties the literal handed to Sentry.init sets before ...config.sentry
SentryDefaults(cfg) ==
    LET sentry == cfg["sentry"] IN
    ("tracesSampleRate" :> Nullish(sentry, "tracesSampleRate", "0.1"))
    @@ (IF ~Flag(sentry, "defaultIntegrations")
        THEN "defaultIntegrations" :> FALSE ELSE EmptyObject)
    @@ ("integrations" :> Integrations(cfg))
    @@ ("maxBreadcrumbs" :> Nullish(sentry, "maxBreadcrumbs", "5"))
    @@ ("sendClientReports" :> FALSE)

SentryInitOptionsDefaultsLast(cfg) == Spread(cfg["sentry"], SentryDefaults(cfg))

\* the object literal handed to Sentry.init
SentryInitOptions(cfg) == Spread(SentryDefaults(cfg), cfg["sentry"])

ProcessHandlers(cfg) ==
    IF Flag(cfg, "autoCaptureUnhandledRejections")
    THEN << "unhandledRejection", "uncaughtException" >>
    ELSE << >>

\* Kino.init(cfg), past its guard; sentryThrows: Sentry.init raises an error
InitBody(cfg, sentryThrows) ==
    /\ locale' = InitLocale(cfg)
    /\ instance' = DefaultInstance(cfg)
    /\ config' = cfg
    /\ effects' = << >>
    /\ IF Has(cfg, "sentry")
       THEN /\ sentryInits' = Append(sentryInits, SentryInitOptions(cfg))
            /\ client' = IF sentryThrows THEN client ELSE TRUE
       ELSE /\ ~sentryThrows
            /\ UNCHANGED <<sentryInits, client>>
    /\ IF sentryThrows
       THEN /\ result' = [call |-> [op |-> "init"], thrown |-> "SentryError"]
            /\ UNCHANGED <<handlers, initReturned>>
       ELSE /\ result' = [call |-> [op |-> "init"], thrown |-> "none"]
            /\ handlers' = handlers \o ProcessHandlers(cfg)
            /\ initReturned' = TRUE
    /\ UNCHANGED <<callback, _logger>>

\* a call that throws before it has any effect
Throw(call, message) ==
    /\ result' = [call |-> call, thrown |-> message]
    /\ effects' = << >>
    /\ UNCHANGED <<instance, locale, sentryInits, client, handlers, callback,
                   config, initReturned, _logger>>

\* Kino.init, with any of the configs
KinoInit(configs) ==
    IF AlreadyInitialized
    THEN Throw([op |-> "init"], "Logger already initialized")
    ELSE \E cfg \in configs, sentryThrows \in BOOLEAN : InitBody(cfg, sentryThrows)

----------------------------------------------------------------------------
(* Formatting and output *)

LEVELS ==
    [log |-> "LOG", info |-> "INFO", success |-> "SUCCESS", warn |-> "WARN",
     error |-> "ERROR", debug |-> "DEBUG"]

COLORS ==
    [log |-> "cyan", info |-> "white", success |-> "green", warn |-> "yellow",
     error |-> "red", debug |-> "blueBright"]

\* Kino.formatDate(): the current time, which the model leaves out, in Kino.locale
formatDate == [locale |-> locale]

WriterWithoutWarn(type) ==
    IF type = "error" THEN "console.error"
    ELSE IF type = "info" THEN "console.info"
    ELSE IF type = "debug" THEN "console.debug"
    ELSE "console.log"

\* the console method output writes with
Writer(type) ==
    IF type = "error" THEN "console.error"
    ELSE IF type = "warn" THEN "console.warn"
    ELSE IF type = "info" THEN "console.info"
    ELSE IF type = "debug" THEN "console.debug"
    ELSE "console.log"

\* typeof entry === 'string' ? entry : util.inspect(entry, { depth: 3, colors: true })
Render(entry) ==
    IF entry.type = "string"
    THEN [string |-> entry.value]
    ELSE [inspect |-> entry.value, depth |-> "3", colors |-> TRUE]

\* this.output(type, ...entries): the writes, in order
output(this, type, entries) ==
    [i \in 1..Len(entries) |->
        [effect |-> "write", writer |-> Writer(type),
         prefix |-> [color |-> COLORS[type], date |-> formatDate,
                     module |-> this.module, level |-> LEVELS[type]],
         text |-> Render(entries[i])]]

\* a call that returns normally after the writes and captures `done`
Return(call, done) ==
    /\ result' = [call |-> call, thrown |-> "none"]
    /\ effects' = done
    /\ UNCHANGED <<instance, locale, sentryInits, client, handlers, callback,
                   config, initReturned, _logger>>

NotInitialized == "Logger not initialized"

----------------------------------------------------------------------------
(* The level methods *)

LevelTypes == {"log", "info", "debug", "success", "warn"}

\* this.log / info / debug / success / warn (...entries), called as `call`
LevelBody(call, this, type, entries) ==
    IF instance = undefined
    THEN Throw(call, NotInitialized)
    ELSE Return(call, output(this, type, entries))

\* the instance methods log, info, debug, success, warn
Level(type, this, entries) ==
    LevelBody([op |-> type, form |-> "instance", this |-> this, entries |-> entries],
              this, type, entries)

\* Kino.log(...entries): no guard, this.instance.log(...entries)
StaticLog(entries) ==
    LET call == [op |-> "log", form |-> "static", entries |-> entries] IN
    IF instance = undefined
    THEN Throw(call, "TypeError: Cannot read properties of undefined")
    ELSE LevelBody(call, instance, "log", entries)

\* Kino.info / debug / success / warn (...entries)
StaticLevel(type, entries) ==
    LET call == [op |-> type, form |-> "static", entries |-> entries] IN
    IF instance = undefined
    THEN Throw(call, NotInitialized)
    ELSE LevelBody(call, instance, type, entries)

----------------------------------------------------------------------------
(* error and trace *)

\* context?.tags
TagsOf(context) ==
    IF context # undefined /\ Has(context, "tags") THEN context["tags"] ELSE undefined

CaptureContextCallerTagsLast(this, context) ==
    Spread(SpreadOf(context),
           "tags" :> Spread("module" :> this.module, SpreadOf(TagsOf(context))))

\* the second argument of Sentry.captureException
CaptureContext(this, context) ==
    Spread(SpreadOf(context),
           "tags" :> Spread(SpreadOf(TagsOf(context)), "module" :> this.module))

\* Sentry.getClient() is truthy
ClientActive == client

\* the captures of this.error(error, context)
Capture(this, error, context) ==
    IF ClientActive
    THEN << [effect |-> "capture", exception |-> error,
             hint |-> CaptureContext(this, context)] >>
    ELSE << >>

\* this.error(error, context), called as `call`
ErrorBody(call, this, error, context) ==
    IF instance = undefined
    THEN Throw(call, NotInitialized)
    ELSE Return(call, output(this, "error", << error >>) \o Capture(this, error, context))

Error(this, error, context) ==
    ErrorBody([op |-> "error", form |-> "instance", this |-> this,
               error |-> error, context |-> context],
              this, error, context)

StaticError(error, context) ==
    LET call == [op |-> "error", form |-> "static", error |-> error,
                 context |-> context] IN
    IF instance = undefined
    THEN Throw(call, NotInitialized)
    ELSE ErrorBody(call, instance, error, context)

\* this.trace(uid, context), called as `call`: the closure over this, uid and context
TraceBody(call, this, uid, context) ==
    IF instance = undefined
    THEN Throw(call, NotInitialized)
    ELSE /\ callback' = [this |-> this, uid |-> uid, context |-> context, from |-> call]
         /\ result' = [call |-> call, thrown |-> "none"]
         /\ effects' = << >>
         /\ UNCHANGED <<instance, locale, sentryInits, client, handlers,
                        config, initReturned, _logger>>

Trace(this, uid, context) ==
    TraceBody([op |-> "trace", form |-> "instance", this |-> this,
               uid |-> uid, context |-> context],
              this, uid, context)

\* Kino.trace(uid): one parameter, so a second argument of the call is dropped
StaticTrace(uid, context) ==
    LET call == [op |-> "trace", form |-> "static", uid |-> uid,
                 context |-> context] IN
    IF instance = undefined
    THEN Throw(call, NotInitialized)
    ELSE TraceBody(call, instance, uid, undefined)

\* fullContext of the function trace returns
FullContext(uid, context) ==
    Spread(SpreadOf(context),
           "tags" :> Spread(SpreadOf(TagsOf(context)), "trace_uid" :> uid))

\* the function trace returned, called with err
Invoke(err) ==
    /\ callback # undefined
    /\ ErrorBody([op |-> "invoke", err |-> err, fn |-> callback],
                 callback.this, err, FullContext(callback.uid, callback.context))

----------------------------------------------------------------------------
(* The environment *)

\* the process emits `event` with `reason`: each listener init registered for it
\* calls Kino.error(reason)
ProcessEvent(event, reason) ==
    LET call == [op |-> "emit", event |-> event, reason |-> reason] IN
    IF \E i \in DOMAIN handlers : handlers[i] = event
    THEN ErrorBody(call, instance, reason, undefined)
    ELSE Return(call, << >>)

\* the caller uses Kino.Sentry directly: Sentry.init(...) or closing the client
SentryAccessor ==
    /\ client' = ~client
    /\ result' = [call |-> [op |-> "Sentry"], thrown |-> "none"]
    /\ effects' = << >>
    /\ UNCHANGED <<instance, locale, sentryInits, handlers, callback,
                   config, initReturned, _logger>>

----------------------------------------------------------------------------
(* Inputs of the logging calls *)

Entries ==
    { [type |-> "string", value |-> "started"],
      [type |-> "object", value |-> "Error: boom"] }

\* loggers the program constructed with new Kino(label)
Loggers == { Kino("Auth"), Kino("Db") }

Uids == {"u1", "u2"}

User == [id |-> "42", username |-> "ada"]

Extras == [attempt |-> "3"]

\* the tags a caller passes: none, ordinary ones, and ones named like Kino's own
Tags ==
    { EmptyObject,
      [env |-> "prod"],
      [env |-> "prod", module |-> "Spoofed", trace_uid |-> "stale"] }

\* SentryCaptureContext values, and no context at all
Contexts ==
    {undefined} \cup
    { t @@ e @@ u :
        t \in Optional("tags", Tags),
        e \in Optional("extras", {Extras}),
        u \in Optional("user", {User}) }

\* the init configs of the logging specification
CoreConfigs ==
    { s @@ t :
        s \in Optional("sentry", {EmptyObject}),
        t \in Optional("defaultIntanceTitle", {"APP"}) }

ProcessEvents == {"unhandledRejection", "uncaughtException"}

----------------------------------------------------------------------------
(* KinoLoggedClass *)

\* the classes of the program that derive from KinoLoggedClass
Derived == {"Service", "UserService", "AdminService", "Repo"}

\* each class's superclass (the prototype of its constructor)
Extends ==
    [KinoLoggedClass |-> "Object", Service |-> "KinoLoggedClass",
     UserService |-> "Service", AdminService |-> "UserService",
     Repo |-> "KinoLoggedClass"]

RECURSIVE StaticField(_)
\* cls._logger: the class's own field or, without one, the one it inherits
StaticField(cls) ==
    IF cls = "Object" THEN undefined
    ELSE IF _logger[cls] # undefined THEN _logger[cls]
    ELSE StaticField(Extends[cls])

\* new Kino(name), a new object: the id stands for its identity
NewLogger(name) ==
    Kino(name) @@ ("id" :> Cardinality({c \in DOMAIN _logger : _logger[c] # undefined}) + 1)

\* a getter that returns `returned`
Returned(call, returned) ==
    /\ result' = [call |-> call, thrown |-> "none", returned |-> returned]
    /\ effects' = << >>
    /\ UNCHANGED <<instance, locale, sentryInits, client, handlers, callback,
                   config, initReturned>>

\* the static getter `logger`, read on class cls
StaticLogger(cls) ==
    LET call == [op |-> "logger", form |-> "static", class |-> cls] IN
    IF StaticField(cls) = undefined
    THEN /\ _logger' = [_logger EXCEPT ![cls] = NewLogger(cls)]
         /\ Returned(call, NewLogger(cls))
    ELSE /\ UNCHANGED _logger
         /\ Returned(call, StaticField(cls))

\* the instance getter `logger`, read on an instance of class cls
InstanceLogger(cls) ==
    LET call == [op |-> "logger", form |-> "instance", class |-> cls] IN
    IF StaticField(cls) = undefined
    THEN /\ _logger' = [_logger EXCEPT ![cls] = NewLogger(cls)]
         /\ Returned(call, NewLogger(cls))
    ELSE /\ UNCHANGED _logger
         /\ Returned(call, StaticField(cls))

----------------------------------------------------------------------------

Init ==
    /\ instance = undefined
    /\ locale = "en-US"
    /\ sentryInits = << >>
    /\ client = FALSE
    /\ handlers = << >>
    /\ effects = << >>
    /\ result = [call |-> [op |-> "none"], thrown |-> "none"]
    /\ callback = undefined
    /\ config = undefined
    /\ initReturned = FALSE
    /\ _logger = [cls \in DOMAIN Extends |-> undefined]

Next ==
    \/ KinoInit(CoreConfigs)
    \/ \E type \in LevelTypes, this \in Loggers, entries \in SeqsUpTo(Entries, MaxEntries) :
            Level(type, this, entries)
    \/ \E entries \in SeqsUpTo(Entries, MaxEntries) : StaticLog(entries)
    \/ \E type \in LevelTypes \ {"log"}, entries \in SeqsUpTo(Entries, MaxEntries) :
            StaticLevel(type, entries)
    \/ \E this \in Loggers, error \in Entries, context \in Contexts :
            Error(this, error, context)
    \/ \E error \in Entries, context \in Contexts : StaticError(error, context)
    \/ SentryAccessor

\* the level methods and error
Spec == Init /\ [][Next]_vars

NextTrace ==
    \/ KinoInit(CoreConfigs)
    \/ \E this \in Loggers, uid \in Uids, context \in Contexts :
            Trace(this, uid, context)
    \/ \E uid \in Uids, context \in Contexts : StaticTrace(uid, context)
    \/ \E err \in Entries : Invoke(err)
    \/ SentryAccessor

\* trace and the functions it returns
SpecTrace == Init /\ [][NextTrace]_vars

NextInit ==
    \/ KinoInit(InitConfigs)
    \/ \E event \in ProcessEvents, reason \in Entries : ProcessEvent(event, reason)

\* initialization with every option of KinoInitOptions, and the process events
SpecInit == Init /\ [][NextInit]_vars

NextLogged ==
    \/ \E cls \in Derived : StaticLogger(cls)
    \/ \E cls \in Derived : InstanceLogger(cls)

\* the per-class loggers of KinoLoggedClass
SpecLogged == Init /\ [][NextLogged]_vars

----------------------------------------------------------------------------
(* Properties *)

Range(seq) == {seq[i] : i \in DOMAIN seq}

\* the value a written line shows
LineValue(line) ==
    IF Has(line.text, "string") THEN line.text["string"] ELSE line.text["inspect"]

LoggingOps == LevelTypes \cup {"error", "trace"}

\* the label of the logger the last call was made on
CalledModule ==
    IF result.call.form = "instance" THEN result.call.this.module ELSE instance.module

BothHandlers == << "unhandledRejection", "uncaughtException" >>

SdkCapture == {"OnUncaughtException", "OnUnhandledRejection"}

\* the integration list of the options handed to Sentry.init
HandedList == Range(sentryInits[1]["integrations"])

\* config.sentry carries its own integrations
OwnIntegrations == Has(config["sentry"], "integrations")

\* C1: while Kino.instance is unset (init never ran), every logging call, instance
\* or static, throws 'Logger not initialized', writes no line and captures nothing.
C1_UninitializedUse ==
    (instance = undefined /\ result.call.op \in LoggingOps)
        => (result.thrown = "Logger not initialized" /\ effects = << >>)

\* C2: once an init call has returned, the system stays initialized, every later
\* init call throws 'Logger already initialized', and the locale, the default
\* instance, the process handlers and the Sentry.init calls stay as they are.
C2_InitOnce ==
    [][initReturned =>
        /\ initReturned'
        /\ instance' = instance /\ instance' # undefined
        /\ locale' = locale
        /\ handlers' = handlers
        /\ sentryInits' = sentryInits
        /\ (result' # result /\ result'.call.op = "init")
              => result'.thrown = "Logger already initialized"]_vars

C2_Witness ==
    /\ initReturned
    /\ result.call.op = "init"
    /\ result.thrown = "Logger already initialized"
    /\ locale = "fr-FR"
    /\ handlers = BothHandlers
    /\ sentryInits # << >>

\* C3: after init, error(V, context) on a logger labelled M (the default instance
\* for the static form) writes exactly one line, with console.error, and then
\* captures V exactly once iff the client is active; the captured tags are the
\* caller's with module = M, and every other key of the context is the caller's.
C3_ErrorWritesThenCaptures ==
    (initReturned /\ result.call.op = "error") =>
        LET V == result.call.error
            given == IF result.call.context = undefined THEN EmptyObject
                     ELSE result.call.context
            tags == IF Has(given, "tags") THEN given["tags"] ELSE EmptyObject
        IN  /\ result.thrown = "none"
            /\ Len(effects) = IF client THEN 2 ELSE 1
            /\ effects[1].effect = "write"
            /\ effects[1].writer = "console.error"
            /\ effects[1].prefix.module = CalledModule
            /\ effects[1].prefix.level = "ERROR"
            /\ LineValue(effects[1]) = V.value
            /\ client =>
                LET hint == effects[2].hint IN
                /\ effects[2].effect = "capture"
                /\ effects[2].exception = V
                /\ DOMAIN hint = DOMAIN given \cup {"tags"}
                /\ \A k \in DOMAIN given \ {"tags"} : hint[k] = given[k]
                /\ DOMAIN hint["tags"] = DOMAIN tags \cup {"module"}
                /\ hint["tags"]["module"] = CalledModule
                /\ \A k \in DOMAIN tags \ {"module"} : hint["tags"][k] = tags[k]

C3_Witness ==
    /\ initReturned
    /\ result.call.op = "error"
    /\ result.call.form = "instance"
    /\ result.call.context # undefined
    /\ Has(result.call.context, "tags")
    /\ Has(result.call.context["tags"], "module")
    /\ Has(result.call.context, "user")
    /\ Len(effects) = 2
    /\ effects[2].hint["tags"]["module"] = "Auth"

\* C4: trace(uid, context) returns a function and has no effect; calling that
\* function with V has the effects of error(V, context') on the same logger,
\* context' being the context given to trace with the tag trace_uid = uid added.
\* Instance form and static form (on the default instance) alike.
C4_TraceIsDeferredError ==
    /\ (result.call.op = "trace" /\ result.thrown = "none") => effects = << >>
    /\ result.call.op = "invoke" =>
        LET from == result.call.fn.from
            this == IF from.form = "instance" THEN from.this ELSE instance
            given == from.context
            added == Spread(SpreadOf(given),
                            "tags" :> Spread(SpreadOf(TagsOf(given)),
                                             "trace_uid" :> from.uid))
        IN  /\ result.thrown = "none"
            /\ effects = output(this, "error", << result.call.err >>)
                            \o Capture(this, result.call.err, added)

\* each level's tag and console method
C5_Expected ==
    [log     |-> [tag |-> "LOG",     writer |-> "console.log"],
     info    |-> [tag |-> "INFO",    writer |-> "console.info"],
     debug   |-> [tag |-> "DEBUG",   writer |-> "console.debug"],
     success |-> [tag |-> "SUCCESS", writer |-> "console.log"],
     warn    |-> [tag |-> "WARN",    writer |-> "console.warn"]]

\* C5: after init, log, info, debug, success and warn (instance or static) write
\* one line per value, in argument order, each with the logger's label and the
\* level's tag, with the level's console method, and capture nothing.
C5_OneLinePerValue ==
    (initReturned /\ result.call.op \in LevelTypes) =>
        /\ result.thrown = "none"
        /\ Len(effects) = Len(result.call.entries)
        /\ \A i \in DOMAIN effects :
            /\ effects[i].effect = "write"
            /\ effects[i].prefix.module = CalledModule
            /\ effects[i].prefix.level = C5_Expected[result.call.op].tag
            /\ effects[i].writer = C5_Expected[result.call.op].writer
            /\ LineValue(effects[i]) = result.call.entries[i].value

C5_Witness ==
    /\ initReturned
    /\ result.call.op = "warn"
    /\ result.call.form = "static"
    /\ Len(result.call.entries) = 2
    /\ result.call.entries[1] # result.call.entries[2]
    /\ Len(effects) = 2
    /\ effects[2].writer = "console.warn"

\* C6 as stated: after init, exactly one of the two capture mechanisms is in
\* effect: with the flag the process handlers and no SDK capture integration in
\* the list handed to the client, without it no handler and both integrations.
C6_ExactlyOneMechanism ==
    initReturned =>
        LET registered == handlers = BothHandlers
            listed == sentryInits # << >> /\ SdkCapture \subseteq HandedList
        IN  /\ Flag(config, "autoCaptureUnhandledRejections")
                => (registered /\ ~listed)
            /\ ~Flag(config, "autoCaptureUnhandledRejections")
                => (handlers = << >> /\ listed)

\* C6, amended: the process handlers are registered exactly by an init call that
\* returned and had the flag, and each routes its event through Kino.error; the
\* list init assembles, which exists only when config.sentry is given and reaches
\* the client unless config.sentry carries its own integrations, holds both SDK
\* capture integrations without the flag and neither with it.
C6_CaptureMechanisms ==
    /\ handlers = IF initReturned /\ Flag(config, "autoCaptureUnhandledRejections")
                  THEN BothHandlers ELSE << >>
    /\ (sentryInits # << >> /\ ~OwnIntegrations) =>
        IF Flag(config, "autoCaptureUnhandledRejections")
        THEN SdkCapture \cap HandedList = {}
        ELSE SdkCapture \subseteq HandedList
    /\ result.call.op = "emit" =>
        IF handlers = << >>
        THEN effects = << >>
        ELSE /\ Len(effects) = IF client THEN 2 ELSE 1
             /\ effects[1].effect = "write"
             /\ effects[1].prefix.level = "ERROR"
             /\ effects[1].prefix.module = instance.module
             /\ LineValue(effects[1]) = result.call.reason.value
             /\ client =>
                 /\ effects[2].exception = result.call.reason
                 /\ DOMAIN effects[2].hint = {"tags"}
                 /\ DOMAIN effects[2].hint["tags"] = {"module"}

C6_Witness ==
    /\ initReturned
    /\ Flag(config, "autoCaptureUnhandledRejections")
    /\ sentryInits # << >>
    /\ ~OwnIntegrations
    /\ handlers = BothHandlers
    /\ result.call.op = "emit"
    /\ result.call.event = "uncaughtException"
    /\ Len(effects) = 2

\* whether init was given `name` in packages
Packaged(name) == Has(config, "packages") /\ name \in Range(config["packages"])

\* C7 as stated: for every init config, each driver integration is in the list
\* handed to the client iff its name is in packages.
C7_ListedIffPackaged ==
    config # undefined =>
        /\ (sentryInits # << >> /\ "Knex" \in HandedList) <=> Packaged("knex")
        /\ (sentryInits # << >> /\ "Mysql2" \in HandedList) <=> Packaged("mysql2")

\* C7, amended: init hands a list to the client only when config.sentry is given;
\* that list is config.sentry's own integrations when it carries some, and
\* otherwise holds each driver integration iff its name is in packages.
C7_DriverIntegrations ==
    /\ (config # undefined /\ ~Has(config, "sentry")) => sentryInits = << >>
    /\ sentryInits # << >> =>
        IF OwnIntegrations
        THEN sentryInits[1]["integrations"] = config["sentry"]["integrations"]
        ELSE /\ "Knex" \in HandedList <=> Packaged("knex")
             /\ "Mysql2" \in HandedList <=> Packaged("mysql2")

C7_Witness ==
    /\ sentryInits # << >>
    /\ ~OwnIntegrations
    /\ Has(config, "packages")
    /\ config["packages"] = << "pg", "mysql2" >>
    /\ "Mysql2" \in HandedList
    /\ "Knex" \notin HandedList

Baseline ==
    {"FunctionToString", "LinkedErrors", "Console", "NodeFetch", "Http",
     "ContextLines", "ChildProcess", "Modules"}

\* the caller's value of a config.sentry option, or the fallback
ValueOr(k, fallback) ==
    IF Has(config["sentry"], k) /\ config["sentry"][k] # "undefined"
    THEN config["sentry"][k] ELSE fallback

\* C8 as stated: given config.sentry, Sentry.init is called exactly once, with the
\* assembled list (the eight baseline integrations, Anr iff ANR was requested),
\* the caller's sample rate or 0.1, the caller's breadcrumb cap or 5, and client
\* reports disabled; without config.sentry it is never called.
C8_DefaultsAlways ==
    config # undefined =>
        IF ~Has(config, "sentry") THEN sentryInits = << >>
        ELSE /\ Len(sentryInits) = 1
             /\ Baseline \subseteq HandedList
             /\ "Anr" \in HandedList <=> Flag(config, "ANR")
             /\ sentryInits[1]["tracesSampleRate"] = ValueOr("tracesSampleRate", "0.1")
             /\ sentryInits[1]["maxBreadcrumbs"] = ValueOr("maxBreadcrumbs", "5")
             /\ sentryInits[1]["sendClientReports"] = FALSE

\* the option Sentry.init gets: config.sentry's own when it has the key
OwnOr(k, default) ==
    IF Has(config["sentry"], k) THEN config["sentry"][k] ELSE default

\* C8, amended: given config.sentry, Sentry.init is called exactly once and every
\* key config.sentry has overrides init's: the list is config.sentry's own
\* integrations if it has the key, else the assembled one (the eight baseline
\* integrations, Anr iff ANR was requested); the sample rate, the breadcrumb cap
\* and sendClientReports are config.sentry's if it has the key (whatever the
\* value), else 0.1, 5 and false; without config.sentry it is never called.
C8_SentryInit ==
    /\ config = undefined => sentryInits = << >>
    /\ config # undefined =>
        IF ~Has(config, "sentry") THEN sentryInits = << >>
        ELSE /\ Len(sentryInits) = 1
             /\ IF OwnIntegrations
                THEN sentryInits[1]["integrations"] = config["sentry"]["integrations"]
                ELSE /\ Baseline \subseteq HandedList
                     /\ "Anr" \in HandedList <=> Flag(config, "ANR")
             /\ sentryInits[1]["tracesSampleRate"] = OwnOr("tracesSampleRate", "0.1")
             /\ sentryInits[1]["maxBreadcrumbs"] = OwnOr("maxBreadcrumbs", "5")
             /\ sentryInits[1]["sendClientReports"] = OwnOr("sendClientReports", FALSE)

C8_Witness ==
    /\ config # undefined
    /\ Has(config, "sentry")
    /\ Flag(config, "ANR")
    /\ ~OwnIntegrations
    /\ Has(config["sentry"], "sendClientReports")
    /\ ~Has(config["sentry"], "tracesSampleRate")
    /\ Has(config["sentry"], "maxBreadcrumbs")
    /\ Len(sentryInits) = 1
    /\ "Anr" \in HandedList
    /\ sentryInits[1]["tracesSampleRate"] = "0.1"

\* C9: the logger a class's getter returns (static or instance) is that class's
\* own memoized logger, carries that class's name, and is no other class's logger.
C9_OneLoggerPerClass ==
    result.call.op = "logger" =>
        /\ result.returned = _logger[result.call.class]
        /\ result.returned.module = result.call.class
        /\ \A other \in Derived \ {result.call.class} : _logger[other] # result.returned

\* C10: while no init call has returned, also after one that threw in Sentry.init,
\* every logging call throws 'Logger not initialized' and an init call is not
\* rejected as already initialized.
C10_InitMustComplete ==
    (config # undefined /\ ~initReturned) =>
        /\ result.call.op \in LoggingOps => result.thrown = "Logger not initialized"
        /\ result.call.op = "init" => result.thrown # "Logger already initialized"

====
